---- MODULE Spec2Model ----
(***************************************************************************)
(* Model of src/bot.py: the per-user daily usage tracker, the API command  *)
(* handlers built on it, the admin commands and the update dispatch of the *)
(* Telegram application.                                                   *)
(*                                                                         *)
(* Every handler is an async function.  A handler runs without             *)
(* interruption from one await to the next; the awaits after which the     *)
(* handler still does work are the outbound call of handle_api_request and *)
(* the per-recipient send of broadcast, so those two are the places where  *)
(* the steps of other handlers can come in between.                        *)
(***************************************************************************)
EXTENDS Integers, Sequences, FiniteSets, Bags, TLC

VARIABLES
    counts,      \* usage_tracker._counts: user id -> (day -> count)
    key_order,   \* insertion order of the keys of usage_tracker._counts
    today,       \* the day datetime.utcnow() falls in
    tasks,       \* handle_api_request calls suspended at "await call_api"
    bcast,       \* the broadcast call suspended at "await send_message"
    last,        \* the handler call that returned in the step just taken, if any
    last_check,  \* the check_quota call of the step just taken, if any
    incs,        \* history: number of increment calls per (user, day)
    overlapped,  \* history: non-administrators with two API handlers in flight at once
    peak,        \* history: most API handlers a non-administrator had in flight at once
    reached,     \* history: users with an API command that reached the quota check
    codes,       \* Entitlement Store: unredeemed code -> (days, issuer)
    premium      \* Entitlement Store: user -> expiry day

vars == <<counts, key_order, today, tasks, bcast, last, last_check, incs,
          overlapped, peak, reached, codes, premium>>

-----------------------------------------------------------------------------
(* Bounds and configuration *)

MaxDay == 1
MaxInFlight == 2
MaxCount == 3
FREE_TIER_LIMIT == 2

Users == {1, 2}
ADMIN_IDS == {2}
Guests == {3}
Days == 0..MaxDay

APIS == {"terabox", "social", "llama", "gpt", "bj_assistant"}
ApiCommands == {"terabox", "social", "llama", "gpt"}
Handlers == {"start", "help", "terabox", "social", "llama", "gpt", "stats", "broadcast"}
Commands == Handlers \cup {"gen_code", "redeem"}

-----------------------------------------------------------------------------
(* Python values *)

EmptyDict == [k \in {} |-> 0]

None == [none |-> TRUE, text |-> ""]
Str(s) == [none |-> FALSE, text |-> s]

\* Python truth value of an Optional[str]: None and "" are false.
truthy(r) == ~r.none /\ r.text # ""

\* dict.get(key, default)
get(d, key, default) == IF key \in DOMAIN d THEN d[key] ELSE default

\* dict.setdefault(key, {}) on a dict of dicts: the dict afterwards.
setdefault(d, key) ==
    IF key \in DOMAIN d THEN d
    ELSE [k \in DOMAIN d \cup {key} |-> IF k = key THEN EmptyDict ELSE d[k]]

\* Insertion order of the keys after dict.setdefault(key, ...).
setdefault_order(order, d, key) ==
    IF key \in DOMAIN d THEN order ELSE Append(order, key)

\* d[key] = value
setitem(d, key, value) ==
    [k \in DOMAIN d \cup {key} |-> IF k = key THEN value ELSE d[k]]

-----------------------------------------------------------------------------
(* UsageTracker *)

limit == FREE_TIER_LIMIT

\* Variants of check_quota: the limit compared with <=, and the counts of all
\* days added up.
check_quota_le(c, user_id, day) ==
    get(setdefault(c, user_id)[user_id], day, 0) <= limit

RECURSIVE total(_, _)
total(daily, ds) ==
    IF ds = {} THEN 0
    ELSE LET d == CHOOSE x \in ds : TRUE IN daily[d] + total(daily, ds \ {d})

check_quota_all_days(c, user_id, day) ==
    LET daily == setdefault(c, user_id)[user_id]
    IN  total(daily, DOMAIN daily) < limit

\* check_quota: the value returned.
check_quota(c, user_id, day) ==
    get(setdefault(c, user_id)[user_id], day, 0) < limit

\* Variant of increment: the user's record is replaced by one holding today only.
increment_dropping_past_days(c, user_id, day) ==
    LET c1 == setdefault(c, user_id)
    IN  setitem(c1, user_id, setitem(EmptyDict, day, get(c1[user_id], day, 0) + 1))

\* increment: _counts afterwards.
increment(c, user_id, day) ==
    LET c1 == setdefault(c, user_id)
    IN  setitem(c1, user_id, setitem(c1[user_id], day, get(c1[user_id], day, 0) + 1))

\* stats: the (user, day, count) triples rendered, one line each.
stats_lines(c) ==
    UNION {{<<uid, day, c[uid][day]>> : day \in DOMAIN c[uid]} : uid \in DOMAIN c}

-----------------------------------------------------------------------------
(* call_api *)

\* Stands for the body made of 1100 "[" followed by 1100 "]": JSON arrays
\* nested deeper than the interpreter's recursion limit.
NestedBody == "[[[[ 1100 deep ]]]]"

\* What session.get / resp.text() can produce: an exception, or a body.
BodyTexts ==
    {"", "plain text", "{\"reply\":\"hi\"}", "{\"reply\":\"\"}",
     "{\"url\":\"http://x\"}", "{\"reply\":\"hi\",\"url\":\"http://x\"}",
     "{\"foo\":1}", "[]", NestedBody}

Responses ==
    {[exc |-> TRUE, text |-> ""]} \cup {[exc |-> FALSE, text |-> t] : t \in BodyTexts}

Parsed(isdict, keys, reply, url, dump) ==
    [ok |-> TRUE, raised |-> "", isdict |-> isdict, keys |-> keys, reply |-> reply,
     url |-> url, dump |-> dump]

JSONDecodeError ==
    [ok |-> FALSE, raised |-> "JSONDecodeError", isdict |-> FALSE, keys |-> {},
     reply |-> "", url |-> "", dump |-> ""]

\* Raised by json.loads on input nested deeper than the recursion limit; a
\* RuntimeError, no JSONDecodeError.
RecursionError == [JSONDecodeError EXCEPT !.raised = "RecursionError"]

\* json.loads on the bodies above; reply and url hold str(value), dump holds
\* json.dumps(data, indent=2).
json_loads(text) ==
    CASE text = "{\"reply\":\"hi\"}" ->
            Parsed(TRUE, {"reply"}, "hi", "", "{\n  \"reply\": \"hi\"\n}")
      [] text = "{\"reply\":\"\"}" ->
            Parsed(TRUE, {"reply"}, "", "", "{\n  \"reply\": \"\"\n}")
      [] text = "{\"url\":\"http://x\"}" ->
            Parsed(TRUE, {"url"}, "", "http://x", "{\n  \"url\": \"http://x\"\n}")
      [] text = "{\"reply\":\"hi\",\"url\":\"http://x\"}" ->
            Parsed(TRUE, {"reply", "url"}, "hi", "http://x",
                   "{\n  \"reply\": \"hi\",\n  \"url\": \"http://x\"\n}")
      [] text = "{\"foo\":1}" ->
            Parsed(TRUE, {"foo"}, "", "", "{\n  \"foo\": 1\n}")
      [] text = "[]" ->
            Parsed(FALSE, {}, "", "", "[]")
      [] text = NestedBody -> RecursionError
      [] OTHER -> JSONDecodeError

\* call_api: the Optional[str] returned for a response.  The inner except
\* clause catches JSONDecodeError; any other exception reaches the outer one.
call_api(resp) ==
    IF resp.exc THEN None
    ELSE LET data == json_loads(resp.text)
         IN  IF data.raised = "JSONDecodeError" THEN Str(resp.text)
             ELSE IF ~data.ok THEN None
             ELSE IF data.isdict /\ "reply" \in data.keys THEN Str(data.reply)
             ELSE IF data.isdict /\ "url" \in data.keys THEN Str(data.url)
             ELSE Str(data.dump)

-----------------------------------------------------------------------------
(* Records of what the handlers did *)

QuotaMsg == "Free tier limit reached. Wait until tomorrow or ask admin."
UnknownApiMsg == "Unknown API."
UnavailableMsg == "Service unavailable. Try later."
NotAuthorizedMsg == "Not authorized."
UnknownOptionMsg == "Unknown option."

NoEvent ==
    [cmd |-> "", outcome |-> "", reply |-> "",
     replies |-> 0,       \* reply_text / edit_message_text calls to the caller
     user |-> 0,          \* the caller, where the handler reads it; else 0
     calls |-> 0,         \* outbound GETs this call issued
     rolled |-> FALSE,    \* the day changed between its check_quota and its return
     body |-> FALSE,      \* the outbound call delivered a response body
     text |-> "",         \* that body
     result |-> None,     \* what call_api returned
     delta |-> 0,         \* change of the caller's count for the day of return
     touched |-> FALSE,   \* some step of this call changed the tracker
     n |-> 0,             \* broadcast: keys of _counts when the loop began
     attempted |-> 0,     \* broadcast: send_message calls made
     failed |-> 0,        \* broadcast: send_message calls that raised
     sent |-> 0,          \* broadcast: the count reported
     audience |-> {},     \* broadcast: users that had reached the quota check
                          \*            when the loop began
     recipients |-> {}]   \* broadcast: users a send was attempted to

Event(cmd, user, outcome, reply) ==
    [NoEvent EXCEPT !.cmd = cmd, !.user = user, !.outcome = outcome,
                    !.reply = reply,
                    !.replies = IF outcome \in {"none", "unhandled"} THEN 0 ELSE 1]

NoCheck == [user |-> 0, day |-> 0, result |-> FALSE]

NoBroadcast ==
    [pc |-> "idle", user |-> 0, di_used |-> 0, di_pos |-> 0, target |-> 0,
     sent |-> 0, failed |-> 0, attempted |-> 0, audience |-> {}, recipients |-> {}]

InFlight == BagCardinality(tasks) + (IF bcast.pc = "idle" THEN 0 ELSE 1)

\* An update is taken from the queue while fewer than MaxInFlight handlers are
\* suspended.
CanReceive == InFlight < MaxInFlight

stored(c, u, d) == get(get(c, u, EmptyDict), d, 0)

\* A handle_api_request call suspended at "await call_api": the caller, whether
\* a step of the call changed the tracker, the day of its check_quota and the
\* GETs it has issued.
Task(user_id, touched, day) ==
    [user |-> user_id, touched |-> touched, day |-> day, gets |-> 1]

\* Suspended handle_api_request calls of a user.
Pending(u) ==
    LET shapes == {Task(u, b, d) : b \in BOOLEAN, d \in Days}
    IN  total([t \in shapes |-> CopiesIn(t, tasks)], shapes)

-----------------------------------------------------------------------------
(* handle_api_request and the four API commands *)

\* Variants of the test: without the administrators' exemption, and never true.
denied_ignoring_admin(check, user_id) == ~check

denied_never(check, user_id) == FALSE

\* "if not usage_tracker.check_quota(user_id) and user_id not in ADMIN_IDS"
denied(check, user_id) == ~check /\ user_id \notin ADMIN_IDS

\* Variant of handle_api_request: the command is counted when it is dispatched,
\* before the outbound call.
handle_api_request_counting_first(user_id, cmd, api_key) ==
    LET chk == check_quota(counts, user_id, today)
        c1 == setdefault(counts, user_id)
        ev == [Event("api", user_id, "", "") EXCEPT !.touched = (c1 # counts)]
    IN  /\ key_order' = setdefault_order(key_order, counts, user_id)
        /\ last_check' = [user |-> user_id, day |-> today, result |-> chk]
        /\ reached' = reached \cup {user_id}
        /\ IF denied(chk, user_id)
           THEN /\ counts' = c1
                /\ last' = [ev EXCEPT !.outcome = "quota_exceeded", !.reply = QuotaMsg]
                /\ UNCHANGED <<tasks, overlapped, peak, incs>>
           ELSE IF api_key \notin APIS
           THEN /\ counts' = c1
                /\ last' = [ev EXCEPT !.outcome = "unknown_endpoint",
                                      !.reply = UnknownApiMsg]
                /\ UNCHANGED <<tasks, overlapped, peak, incs>>
           ELSE /\ counts' = increment(counts, user_id, today)
                /\ incs' = [incs EXCEPT ![user_id][today] = @ + 1]
                /\ tasks' = tasks (+) SetToBag({Task(user_id, TRUE, today)})
                /\ overlapped' =
                       IF user_id \notin ADMIN_IDS /\ Pending(user_id) > 0
                       THEN overlapped \cup {user_id} ELSE overlapped
                /\ peak' =
                       IF user_id \notin ADMIN_IDS /\ Pending(user_id) + 1 > peak[user_id]
                       THEN [peak EXCEPT ![user_id] = Pending(user_id) + 1] ELSE peak
                /\ last' = NoEvent
        /\ UNCHANGED <<today, bcast, codes, premium>>

\* handle_api_request up to "await call_api(session, url)".
handle_api_request(user_id, cmd, api_key) ==
    LET chk == check_quota(counts, user_id, today)
        c1 == setdefault(counts, user_id)
        ev == [Event("api", user_id, "", "") EXCEPT !.touched = (c1 # counts)]
    IN  /\ counts' = c1
        /\ key_order' = setdefault_order(key_order, counts, user_id)
        /\ last_check' = [user |-> user_id, day |-> today, result |-> chk]
        /\ reached' = reached \cup {user_id}
        /\ IF denied(chk, user_id)
           THEN /\ last' = [ev EXCEPT !.outcome = "quota_exceeded", !.reply = QuotaMsg]
                /\ UNCHANGED <<tasks, overlapped, peak>>
           ELSE IF api_key \notin APIS
           THEN /\ last' = [ev EXCEPT !.outcome = "unknown_endpoint",
                                      !.reply = UnknownApiMsg]
                /\ UNCHANGED <<tasks, overlapped, peak>>
           ELSE /\ tasks' = tasks (+) SetToBag({Task(user_id, c1 # counts, today)})
                /\ overlapped' =
                       IF user_id \notin ADMIN_IDS /\ Pending(user_id) > 0
                       THEN overlapped \cup {user_id} ELSE overlapped
                /\ peak' =
                       IF user_id \notin ADMIN_IDS /\ Pending(user_id) + 1 > peak[user_id]
                       THEN [peak EXCEPT ![user_id] = Pending(user_id) + 1] ELSE peak
                /\ last' = NoEvent
        /\ UNCHANGED <<today, bcast, incs, codes, premium>>

\* terabox, social, llama, gpt: the usage reply without arguments, otherwise
\* handle_api_request with the command's own key.
ApiCommand(user_id, cmd, has_args) ==
    /\ CanReceive
    /\ user_id \in ADMIN_IDS =>
           stored(counts, user_id, today) + Pending(user_id) < MaxCount
    /\ cmd \in ApiCommands
    /\ IF ~has_args
       THEN /\ last' = Event("api", 0, "usage", "Usage")
            /\ last_check' = NoCheck
            /\ UNCHANGED <<counts, key_order, today, tasks, bcast, incs,
                           overlapped, peak, reached, codes, premium>>
       ELSE handle_api_request(user_id, cmd, cmd)

\* Variant of the end of handle_api_request: a call that failed is issued once
\* more before the command gives up.
CallReturns_retrying(t, resp) ==
    LET result == call_api(resp)
        c1 == IF truthy(result) THEN increment(counts, t.user, today) ELSE counts
        ev == [Event("api", t.user, "", "") EXCEPT
                  !.calls = t.gets, !.rolled = (t.day # today), !.body = ~resp.exc,
                  !.text = resp.text, !.result = result,
                  !.delta = stored(c1, t.user, today) - stored(counts, t.user, today),
                  !.touched = (t.touched \/ c1 # counts)]
    IN  /\ t \in BagToSet(tasks)
        /\ counts' = c1
        /\ IF ~truthy(result) /\ t.gets < 2
           THEN /\ tasks' = (tasks (-) SetToBag({t})) (+) SetToBag({[t EXCEPT !.gets = 2]})
                /\ last' = NoEvent
                /\ UNCHANGED <<key_order, incs>>
           ELSE IF ~truthy(result)
           THEN /\ tasks' = tasks (-) SetToBag({t})
                /\ last' = [ev EXCEPT !.outcome = "service_unavailable",
                                      !.reply = UnavailableMsg]
                /\ UNCHANGED <<key_order, incs>>
           ELSE /\ tasks' = tasks (-) SetToBag({t})
                /\ key_order' = setdefault_order(key_order, counts, t.user)
                /\ incs' = [incs EXCEPT ![t.user][today] = @ + 1]
                /\ last' = [ev EXCEPT !.outcome = "completed", !.reply = result.text]
        /\ last_check' = NoCheck
        /\ UNCHANGED <<today, bcast, overlapped, peak, reached, codes, premium>>

\* handle_api_request from the return of call_api to its end.
CallReturns(t, resp) ==
    LET result == call_api(resp)
        c1 == IF truthy(result) THEN increment(counts, t.user, today) ELSE counts
        ev == [Event("api", t.user, "", "") EXCEPT
                  !.calls = t.gets, !.rolled = (t.day # today), !.body = ~resp.exc, !.text = resp.text,
                  !.result = result,
                  !.delta = stored(c1, t.user, today) - stored(counts, t.user, today),
                  !.touched = (t.touched \/ c1 # counts)]
    IN  /\ t \in BagToSet(tasks)
        /\ tasks' = tasks (-) SetToBag({t})
        /\ counts' = c1
        /\ IF ~truthy(result)
           THEN /\ last' = [ev EXCEPT !.outcome = "service_unavailable",
                                      !.reply = UnavailableMsg]
                /\ UNCHANGED <<key_order, incs>>
           ELSE /\ key_order' = setdefault_order(key_order, counts, t.user)
                /\ incs' = [incs EXCEPT ![t.user][today] = @ + 1]
                /\ last' = [ev EXCEPT !.outcome = "completed", !.reply = result.text]
        /\ last_check' = NoCheck
        /\ UNCHANGED <<today, bcast, overlapped, peak, reached, codes, premium>>

-----------------------------------------------------------------------------
(* broadcast and stats *)

\* The loop of broadcast from the dict iterator's next() to the following
\* await, or to the end of broadcast.  The iterator remembers the size the dict
\* had when the loop began and raises RuntimeError ("dictionary changed size
\* during iteration") from next() once the size differs; nothing in broadcast
\* catches it there.
broadcast_loop(b) ==
    LET ev == [Event("broadcast", b.user, "", "") EXCEPT
                  !.n = b.di_used, !.attempted = b.attempted, !.failed = b.failed,
                  !.sent = b.sent, !.audience = b.audience,
                  !.recipients = b.recipients]
    IN  IF b.di_used # Len(key_order)
        THEN /\ bcast' = NoBroadcast
             /\ last' = [ev EXCEPT !.outcome = "raised", !.replies = 0]
        ELSE IF b.di_pos >= Len(key_order)
        THEN /\ bcast' = NoBroadcast
             /\ last' = [ev EXCEPT !.outcome = "reported", !.reply = "Broadcast sent"]
        ELSE /\ bcast' = [b EXCEPT !.pc = "sending", !.di_pos = @ + 1,
                                   !.target = key_order[b.di_pos + 1],
                                   !.attempted = @ + 1,
                                   !.recipients = @ \cup {key_order[b.di_pos + 1]}]
             /\ last' = NoEvent

\* Variant of broadcast without the test of the caller.
BroadcastCommand_unchecked(user_id, has_args) ==
    /\ CanReceive
    /\ bcast.pc = "idle"
    /\ IF ~has_args
       THEN /\ last' = Event("broadcast", user_id, "usage", "Usage")
            /\ UNCHANGED bcast
       ELSE broadcast_loop([NoBroadcast EXCEPT !.user = user_id,
                                               !.di_used = Len(key_order),
                                               !.audience = reached])
    /\ last_check' = NoCheck
    /\ UNCHANGED <<counts, key_order, today, tasks, incs, overlapped, peak,
                   reached, codes, premium>>

\* broadcast up to its first await that is followed by more work.  One
\* broadcast is in flight at a time.
BroadcastCommand(user_id, has_args) ==
    /\ CanReceive
    /\ bcast.pc = "idle"
    /\ IF user_id \notin ADMIN_IDS
       THEN /\ last' = Event("broadcast", user_id, "unauthorized", NotAuthorizedMsg)
            /\ UNCHANGED bcast
       ELSE IF ~has_args
       THEN /\ last' = Event("broadcast", user_id, "usage", "Usage")
            /\ UNCHANGED bcast
       ELSE broadcast_loop([NoBroadcast EXCEPT !.user = user_id,
                                               !.di_used = Len(key_order),
                                               !.audience = reached])
    /\ last_check' = NoCheck
    /\ UNCHANGED <<counts, key_order, today, tasks, incs, overlapped, peak,
                   reached, codes, premium>>

\* broadcast from the return of send_message (ok) or its exception (~ok).
SendReturns(ok) ==
    /\ bcast.pc = "sending"
    /\ broadcast_loop([bcast EXCEPT !.sent = IF ok THEN @ + 1 ELSE @,
                                    !.failed = IF ok THEN @ ELSE @ + 1])
    /\ last_check' = NoCheck
    /\ UNCHANGED <<counts, key_order, today, tasks, incs, overlapped, peak,
                   reached, codes, premium>>

\* stats
StatsCommand(user_id) ==
    /\ CanReceive
    /\ last' = IF user_id \notin ADMIN_IDS
               THEN Event("stats", user_id, "unauthorized", NotAuthorizedMsg)
               ELSE Event("stats", user_id, "stats",
                          IF stats_lines(counts) = {} THEN "No usage recorded."
                          ELSE "lines")
    /\ last_check' = NoCheck
    /\ UNCHANGED <<counts, key_order, today, tasks, bcast, incs, overlapped,
                   peak, reached, codes, premium>>

-----------------------------------------------------------------------------
(* The other handlers and the dispatch *)

CallbackData ==
    {[menu |-> TRUE, key |-> k] : k \in APIS \cup {"bogus"}} \cup
    {[menu |-> FALSE, key |-> ""]}

\* Variant of callback_handler: the selection passes through check_quota first.
CallbackQuery_checking(user_id, data) ==
    /\ CanReceive
    /\ counts' = setdefault(counts, user_id)
    /\ key_order' = setdefault_order(key_order, counts, user_id)
    /\ last' = IF ~data.menu THEN Event("callback", 0, "none", "")
               ELSE IF data.key \in APIS
               THEN Event("callback", 0, "prompt", "Send me input")
               ELSE Event("callback", 0, "unknown_option", UnknownOptionMsg)
    /\ last_check' = NoCheck
    /\ UNCHANGED <<today, tasks, bcast, incs, overlapped, peak, reached, codes,
                   premium>>

\* callback_handler
CallbackQuery(user_id, data) ==
    /\ CanReceive
    /\ last' = IF ~data.menu THEN Event("callback", 0, "none", "")
               ELSE IF data.key \in APIS
               THEN Event("callback", 0, "prompt", "Send me input")
               ELSE Event("callback", 0, "unknown_option", UnknownOptionMsg)
    /\ last_check' = NoCheck
    /\ UNCHANGED <<counts, key_order, today, tasks, bcast, incs, overlapped,
                   peak, reached, codes, premium>>

\* start, help_command and handle_freeform_input ("text": a message that is
\* no command): one reply each.
SimpleReply(user_id, cmd) ==
    /\ CanReceive
    /\ cmd \in {"start", "help", "text"}
    /\ last' = Event("simple", 0, "replied", "")
    /\ last_check' = NoCheck
    /\ UNCHANGED <<counts, key_order, today, tasks, bcast, incs, overlapped,
                   peak, reached, codes, premium>>

\* A command no CommandHandler is registered for: the MessageHandler excludes
\* commands, so no handler runs and nothing is replied.
Unhandled(user_id, cmd) ==
    /\ CanReceive
    /\ cmd \in Commands \ Handlers
    /\ last' = Event(cmd, 0, "unhandled", "")
    /\ last_check' = NoCheck
    /\ UNCHANGED <<counts, key_order, today, tasks, bcast, incs, overlapped,
                   peak, reached, codes, premium>>

\* Midnight UTC passes.
Tick ==
    /\ today < MaxDay
    /\ today' = today + 1
    /\ last' = NoEvent
    /\ last_check' = NoCheck
    /\ UNCHANGED <<counts, key_order, tasks, bcast, incs, overlapped, peak,
                   reached, codes, premium>>

-----------------------------------------------------------------------------
(* The program *)

Init ==
    /\ counts = EmptyDict
    /\ key_order = <<>>
    /\ today = 0
    /\ tasks = EmptyBag
    /\ bcast = NoBroadcast
    /\ last = NoEvent
    /\ last_check = NoCheck
    /\ incs = [u \in Users \cup Guests |-> [d \in Days |-> 0]]
    /\ overlapped = {}
    /\ peak = [u \in (Users \cup Guests) \ ADMIN_IDS |-> 0]
    /\ reached = {}
    /\ codes = EmptyDict
    /\ premium = EmptyDict

Next ==
    \/ \E u \in Users, cmd \in ApiCommands, has_args \in BOOLEAN :
           ApiCommand(u, cmd, has_args)
    \/ \E t \in BagToSet(tasks), resp \in Responses : CallReturns(t, resp)
    \/ \E u \in Users, has_args \in BOOLEAN : BroadcastCommand(u, has_args)
    \/ \E ok \in BOOLEAN : SendReturns(ok)
    \/ \E u \in Users : StatsCommand(u)
    \/ \E u \in Users, data \in CallbackData : CallbackQuery(u, data)
    \/ \E u \in Users, cmd \in {"start", "help", "text"} : SimpleReply(u, cmd)
    \/ \E u \in Users, cmd \in Commands \ Handlers : Unhandled(u, cmd)
    \/ Tick

Spec == Init /\ [][Next]_vars

-----------------------------------------------------------------------------
(* The Entitlement Store of the specification (sections 3, 4.2 and 4.4).     *)
(* bot.py holds no code for it: the definitions below follow the             *)
(* specification's text, with instants counted in days.                      *)

CodeTokens == {"A1"}
GrantDays == {1}

\* generate_code: the store afterwards; the token is unique among the
\* unredeemed codes.
generate_code(cs, token, days, issuer_id) ==
    setitem(cs, token, [days |-> days, issuer |-> issuer_id])

\* redeem: the code store afterwards.
redeem_codes(cs, code) == [k \in DOMAIN cs \ {code} |-> cs[k]]

\* redeem: the grants afterwards; the expiry is overwritten.
redeem_grants(p, cs, code, user_id, now) == setitem(p, user_id, now + cs[code].days)

\* is_premium
is_premium(p, user_id, now) == user_id \in DOMAIN p /\ p[user_id] > now

\* gen_code <days>: admin only.
GenCodeCommand(user_id, token, days) ==
    /\ CanReceive
    /\ IF user_id \notin ADMIN_IDS
       THEN /\ last' = Event("gen_code", user_id, "unauthorized", NotAuthorizedMsg)
            /\ UNCHANGED codes
       ELSE /\ token \notin DOMAIN codes
            /\ codes' = generate_code(codes, token, days, user_id)
            /\ last' = Event("gen_code", user_id, "code_issued", token)
    /\ last_check' = NoCheck
    /\ UNCHANGED <<counts, key_order, today, tasks, bcast, incs, overlapped,
                   peak, reached, premium>>

\* redeem <code>
RedeemCommand(user_id, code) ==
    /\ CanReceive
    /\ IF code \in DOMAIN codes
       THEN /\ codes' = redeem_codes(codes, code)
            /\ premium' = redeem_grants(premium, codes, code, user_id, today)
            /\ last' = Event("redeem", user_id, "granted", code)
       ELSE /\ last' = Event("redeem", user_id, "code_not_found", "Code not found")
            /\ UNCHANGED <<codes, premium>>
    /\ last_check' = NoCheck
    /\ UNCHANGED <<counts, key_order, today, tasks, bcast, incs, overlapped,
                   peak, reached>>

\* The API commands of bot.py, issued by the non-administrators, beside the
\* store's two commands.
NextEnt ==
    \/ \E u \in Users \ ADMIN_IDS, cmd \in ApiCommands, has_args \in BOOLEAN :
           ApiCommand(u, cmd, has_args)
    \/ \E t \in BagToSet(tasks), resp \in Responses : CallReturns(t, resp)
    \/ Tick
    \/ \E u \in Users, token \in CodeTokens, days \in GrantDays :
           GenCodeCommand(u, token, days)
    \/ \E u \in Users \ ADMIN_IDS, code \in CodeTokens : RedeemCommand(u, code)

SpecEnt == Init /\ [][NextEnt]_vars

-----------------------------------------------------------------------------
(* Broadcasts among the API commands of three users: Users and Guests issue   *)
(* /gpt with a prompt, answered by an exception or by a text body; the        *)
(* administrators issue the broadcasts.                                       *)

BcastResponses == {r \in Responses : r.exc \/ r.text = "plain text"}

NextBcast ==
    \/ \E u \in Users \cup Guests : ApiCommand(u, "gpt", TRUE)
    \/ \E t \in BagToSet(tasks), resp \in BcastResponses : CallReturns(t, resp)
    \/ \E u \in ADMIN_IDS, has_args \in BOOLEAN : BroadcastCommand(u, has_args)
    \/ \E ok \in BOOLEAN : SendReturns(ok)

SpecBcast == Init /\ [][NextBcast]_vars

-----------------------------------------------------------------------------
(* The API commands of the non-administrators alone, with every outbound     *)
(* call returning or raising in the end: the event loop resumes a handler     *)
(* whose awaited call is done.                                                *)

TaskShapes == {Task(u, b, d) : u \in Users \ ADMIN_IDS, b \in BOOLEAN, d \in Days}

NextLive ==
    \/ \E u \in Users \ ADMIN_IDS, cmd \in ApiCommands, has_args \in BOOLEAN :
           ApiCommand(u, cmd, has_args)
    \/ \E t \in BagToSet(tasks), resp \in Responses : CallReturns(t, resp)
    \/ Tick

SpecLive ==
    /\ Init
    /\ [][NextLive]_vars
    /\ \A t \in TaskShapes : WF_vars(\E resp \in Responses : CallReturns(t, resp))

-----------------------------------------------------------------------------
(* Properties *)

NonAdmins == Users \ ADMIN_IDS

Checked == last_check.user # 0

\* C1: check_quota(user) is false once increment(user) has been called limit
\* times on the current day and for the rest of that day, and true again as
\* soon as the day is one with fewer than limit increments of the user; no
\* reset is involved.
C1_QuotaFollowsTheDaysIncrements ==
    Checked =>
        (last_check.result <=> incs[last_check.user][last_check.day] < limit)

\* C1 witness: a check that returns true on the day after one on which the user
\* had limit increments.
C1_Witness ==
    /\ Checked
    /\ last_check.result
    /\ last_check.day > 0
    /\ incs[last_check.user][last_check.day - 1] >= limit

\* C2: check_quota(user) is true iff the count stored for (user, today) is
\* strictly below the limit, an absent record counting as 0, whatever the
\* counts of other days and other users.
C2_CheckQuotaIsStoredCountBelowLimit ==
    Checked =>
        (last_check.result <=>
            stored(counts, last_check.user, last_check.day) < limit)

\* C2 witness: a check that returns true while another user or another day holds
\* a count at the limit.
C2_Witness ==
    /\ Checked
    /\ last_check.result
    /\ \E u \in Users, d \in Days :
           /\ <<u, d>> # <<last_check.user, last_check.day>>
           /\ stored(counts, u, d) >= limit

\* C3: an API command increments the caller's count for the day exactly once
\* when the outbound call delivered a response body, whatever its content, and
\* not at all when the call failed.
C3_IncrementIffBodyReceived ==
    (last.cmd = "api" /\ last.calls = 1) =>
        /\ last.body => last.delta = 1
        /\ ~last.body => last.delta = 0

\* C4: an API command of a non-administrator for whom check_quota is false ends
\* in the quota-exceeded outcome: the fixed message is sent, no outbound call is
\* issued and no count of any (user, day) changes.
C4_DeniedCommandHasNoEffect ==
    [][(last_check'.user \in NonAdmins /\ ~last_check'.result) =>
          /\ last'.cmd = "api"
          /\ last'.user = last_check'.user
          /\ last'.outcome = "quota_exceeded"
          /\ last'.reply = QuotaMsg
          /\ last'.calls = 0
          /\ tasks' = tasks
          /\ \A u \in Users, d \in Days : stored(counts', u, d) = stored(counts, u, d)
      ]_vars

\* C4 witness: a non-administrator's command denied for quota.
C4_Witness ==
    /\ last_check.user \in NonAdmins
    /\ ~last_check.result
    /\ last.outcome = "quota_exceeded"

\* C5: an administrator's API command never ends in the quota-exceeded outcome;
\* whatever the administrator's count, it goes on to the outbound call.
C5_AdminBypassesQuota ==
    /\ last.outcome = "quota_exceeded" => last.user \notin ADMIN_IDS
    /\ last_check.user \in ADMIN_IDS =>
           /\ last = NoEvent
           /\ Pending(last_check.user) >= 1

\* C5 witness: an administrator whose count is at the limit, suspended at the
\* outbound call after check_quota returned false.
C5_Witness ==
    /\ last_check.user \in ADMIN_IDS
    /\ ~last_check.result
    /\ stored(counts, last_check.user, today) >= limit
    /\ Pending(last_check.user) >= 1

\* C6: a non-administrator's count for a day can end above the daily limit, and
\* does so only through API commands of that user handled concurrently: each
\* passed the quota check before the other's increment.
C6_LimitExceededOnlyByOverlap ==
    \A u \in NonAdmins, d \in Days :
        stored(counts, u, d) > limit => u \in overlapped

\* C6 witness: a completed command of a non-administrator leaves the user's
\* count for the day above the limit.
C6_Witness ==
    /\ last.outcome = "completed"
    /\ last.user \in NonAdmins
    /\ stored(counts, last.user, today) > limit

\* C7: a broadcast by an administrator with N users recorded, M of whose sends
\* raise, attempts N sends, reports N - M deliveries and does not raise,
\* whatever other commands are handled while it is suspended at a send.
C7_BroadcastReportsAllDeliveries ==
    (last.cmd = "broadcast" /\ last.outcome \in {"reported", "raised"}) =>
        /\ last.outcome = "reported"
        /\ last.attempted = last.n
        /\ last.sent = last.n - last.failed

\* C8: an API command whose outbound call raises ends in the
\* service-unavailable outcome and leaves the tracker as it was when the command
\* was received: no count changed, no user or day record created.
C8_FailedCallLeavesTrackerUnchanged ==
    (last.cmd = "api" /\ last.calls = 1 /\ ~last.body) =>
        /\ last.outcome = "service_unavailable"
        /\ last.delta = 0
        /\ ~last.touched

\* C9: gen_code issues a code and a redeem command either grants premium status,
\* removing the code from the store, or reports that the code was not found.
C9_RedeemGrantsOnce ==
    /\ last.cmd = "gen_code" => last.outcome \in {"code_issued", "unauthorized"}
    /\ last.cmd = "redeem" => last.outcome \in {"granted", "code_not_found"}
    /\ last.outcome = "granted" =>
           /\ last.reply \notin DOMAIN codes
           /\ is_premium(premium, last.user, today)

\* C10: an API command is denied for quota only when the caller is no
\* administrator, is not premium and check_quota is false; a premium caller is
\* authorized even when check_quota is false.
C10_PremiumBypassesQuota ==
    last.outcome = "quota_exceeded" =>
        /\ last.user \notin ADMIN_IDS
        /\ ~is_premium(premium, last.user, today)
        /\ ~last_check.result

\* The bodies that parse as a JSON object with key "reply", with the value's
\* text; likewise for "url"; and every body that is JSON, pretty-printed.
ReplyValue ==
    "{\"reply\":\"hi\"}" :> "hi" @@ "{\"reply\":\"\"}" :> "" @@
    "{\"reply\":\"hi\",\"url\":\"http://x\"}" :> "hi"

UrlValue ==
    "{\"url\":\"http://x\"}" :> "http://x" @@
    "{\"reply\":\"hi\",\"url\":\"http://x\"}" :> "http://x"

PrettyPrinted ==
    "{\"reply\":\"hi\"}" :> "{\n  \"reply\": \"hi\"\n}" @@
    "{\"reply\":\"\"}" :> "{\n  \"reply\": \"\"\n}" @@
    "{\"url\":\"http://x\"}" :> "{\n  \"url\": \"http://x\"\n}" @@
    "{\"reply\":\"hi\",\"url\":\"http://x\"}" :>
        "{\n  \"reply\": \"hi\",\n  \"url\": \"http://x\"\n}" @@
    "{\"foo\":1}" :> "{\n  \"foo\": 1\n}" @@
    "[]" :> "[]" @@
    NestedBody :> "[\n  [\n    [ 1100 deep ]\n  ]\n]"

\* C11: for every response body call_api returns exactly one of four texts, by
\* priority: the value of "reply" when the body is a JSON object with that key
\* (also when "url" is present), else the value of "url" when it is an object
\* with that key, else the pretty-printed structure when the body is JSON at
\* all, else the raw body verbatim.
C11_NormalizationByPriority ==
    (last.cmd = "api" /\ last.calls = 1 /\ last.body) =>
        last.result =
            Str(IF last.text \in DOMAIN ReplyValue THEN ReplyValue[last.text]
                ELSE IF last.text \in DOMAIN UrlValue THEN UrlValue[last.text]
                ELSE IF last.text \in DOMAIN PrettyPrinted
                     THEN PrettyPrinted[last.text]
                ELSE last.text)

\* C12: a menu selection "menu:<key>" with a key outside the endpoint registry
\* gets the fixed "Unknown option." reply; no menu selection, of a known key or
\* an unknown one, issues an outbound call or changes the tracker.
C12_MenuSelectionOnlyReplies ==
    [][last'.cmd = "callback" =>
          /\ \A u \in Users, data \in CallbackData :
                 (data.menu /\ data.key \notin APIS /\ CallbackQuery(u, data)) =>
                     last'.reply = UnknownOptionMsg
          /\ last'.calls = 0
          /\ tasks' = tasks
          /\ counts' = counts
          /\ key_order' = key_order
          /\ incs' = incs
      ]_vars

\* C12 witness: the reply to a menu selection of an unknown key, with usage
\* recorded in the tracker.
C12_Witness ==
    /\ last.cmd = "callback"
    /\ last.reply = UnknownOptionMsg
    /\ \E u \in Users : stored(counts, u, today) > 0

\* C13: a non-administrator's stored count for a day never exceeds
\* limit + K - 1, K being the most API commands of that user in flight at once
\* (between quota check and increment); with the user's commands handled one at
\* a time (K = 1) it never exceeds the limit, also when the day changes between
\* a command's quota check and its increment.
C13_CountWithinLimitPlusOverlap ==
    \A u \in NonAdmins, d \in Days :
        stored(counts, u, d) <= limit + peak[u] - 1

\* C13 witness: a user whose commands were handled one at a time; the last one
\* passed the quota check with limit - 1 counted for the day, the day changed,
\* and its increment went to the new day.
C13_Witness ==
    /\ last.outcome = "completed"
    /\ last.rolled
    /\ last.user \in NonAdmins
    /\ peak[last.user] = 1
    /\ stored(counts, last.user, today - 1) = limit - 1
    /\ stored(counts, last.user, today) = 1

\* C14: an API command issues at most one outbound GET and never retries:
\* exactly one when the caller is authorized (the endpoint key of a command is
\* always registered), none when it ends in quota-exceeded or unknown-endpoint;
\* the return of a failed call ends the command with no further call.
C14_AtMostOneOutboundCall ==
    [][/\ \A t \in BagToSet(tasks') : t.gets = 1
       /\ last'.cmd = "api" =>
              /\ last'.calls <= 1
              /\ last'.outcome \in {"quota_exceeded", "unknown_endpoint"} =>
                     last'.calls = 0
              /\ last'.outcome \in {"completed", "service_unavailable"} =>
                     last'.calls = 1
       /\ last_check'.user # 0 =>
              IF last_check'.result \/ last_check'.user \in ADMIN_IDS
              THEN \E t \in BagToSet(tasks') :
                       /\ t.user = last_check'.user
                       /\ tasks' = tasks (+) SetToBag({t})
              ELSE tasks' = tasks
       /\ last'.outcome = "service_unavailable" =>
              BagCardinality(tasks') = BagCardinality(tasks) - 1
      ]_vars

\* C14 witness: a command whose only outbound call raised has ended, and no
\* call is outstanding.
C14_Witness ==
    /\ last.outcome = "service_unavailable"
    /\ last.calls = 1
    /\ ~last.body
    /\ tasks = EmptyBag

\* C15: whatever the operations and their interleaving, the count stored for a
\* (user, day) never decreases and changes only by +1, in a step that calls
\* increment for that user and day; no user record and no (user, day) record
\* is ever removed; the steps of stats and broadcast change no count.
C15_CountsOnlyGrowByIncrement ==
    [][/\ counts' # counts =>
              /\ \A u \in Users, d \in Days :
                     /\ stored(counts', u, d) \in
                            {stored(counts, u, d), stored(counts, u, d) + 1}
                     /\ stored(counts', u, d) # stored(counts, u, d) =>
                            incs'[u][d] = incs[u][d] + 1
              /\ DOMAIN counts \subseteq DOMAIN counts'
              /\ \A u \in DOMAIN counts : DOMAIN counts[u] \subseteq DOMAIN counts'[u]
       /\ (last'.cmd \in {"stats", "broadcast"} \/ bcast' # bcast) => counts' = counts
      ]_vars

\* C15 witness: stats rendered after the day changed, with a user's count of
\* the past day kept beside the one of the new day.
C15_Witness ==
    /\ last.cmd = "stats"
    /\ last.outcome = "stats"
    /\ today > 0
    /\ \E u \in Users :
           /\ stored(counts, u, today - 1) > 0
           /\ stored(counts, u, today) > 0

\* C18: stats and broadcast from a caller outside the administrator set reply
\* "Not authorized." and do nothing else: no send is attempted, no usage data
\* is rendered, the tracker is unchanged; so every broadcast in progress was
\* issued by an administrator.
C18_NonAdminIsRefused ==
    [][/\ (last'.cmd \in {"stats", "broadcast"} /\ last'.user \in NonAdmins) =>
              /\ last'.outcome = "unauthorized"
              /\ last'.reply = NotAuthorizedMsg
              /\ last'.attempted = 0
              /\ bcast' = bcast
              /\ tasks' = tasks
              /\ counts' = counts
              /\ key_order' = key_order
              /\ incs' = incs
       /\ bcast'.pc # "idle" => bcast'.user \in ADMIN_IDS
      ]_vars

\* C18 witness: a non-administrator's broadcast refused while users are
\* recorded in the tracker.
C18_Witness ==
    /\ last.cmd = "broadcast"
    /\ last.user \in NonAdmins
    /\ last.outcome = "unauthorized"
    /\ key_order # <<>>

\* C16: a broadcast delivers to exactly the users who have issued an API
\* command that reached the quota check, whatever that command's outcome, and
\* to no user who has not.
C16_RecipientsAreTheCheckedUsers ==
    (last.cmd = "broadcast" /\ last.outcome \in {"reported", "raised"}) =>
        last.recipients = last.audience

\* C17: a received API command goes Received -> Authorized? -> Dispatched ->
\* Completed|Failed: the quota check comes before the endpoint lookup, the
\* lookup before the outbound call and the call before the increment; the
\* command ends in exactly one of completed, quota-exceeded, unknown-endpoint
\* and service-unavailable with exactly one reply; and, the outbound call
\* returning or raising in the end, every dispatched command does end.
C17_CommandRunsToOneOutcome ==
    /\ [][/\ BagCardinality(tasks') > BagCardinality(tasks) =>
                 /\ last_check'.user # 0
                 /\ last_check'.result \/ last_check'.user \in ADMIN_IDS
                 /\ last' = NoEvent
                 /\ incs' = incs
          /\ last_check'.user # 0 =>
                 \/ /\ last' = NoEvent
                    /\ BagCardinality(tasks') = BagCardinality(tasks) + 1
                 \/ /\ last'.outcome \in {"quota_exceeded", "unknown_endpoint"}
                    /\ last'.user = last_check'.user
                    /\ last'.replies = 1
                    /\ tasks' = tasks
                    /\ incs' = incs
          /\ BagCardinality(tasks') < BagCardinality(tasks) =>
                 /\ BagCardinality(tasks') = BagCardinality(tasks) - 1
                 /\ last'.cmd = "api"
                 /\ last'.outcome \in {"completed", "service_unavailable"}
                 /\ last'.calls = 1
                 /\ last'.replies = 1
          /\ incs' # incs =>
                 /\ BagCardinality(tasks') = BagCardinality(tasks) - 1
                 /\ last'.outcome = "completed"
                 /\ incs' = [incs EXCEPT ![last'.user][today] = @ + 1]
          /\ counts' # counts =>
                 \A u \in Users, d \in Days :
                     stored(counts', u, d) - stored(counts, u, d) =
                         incs'[u][d] - incs[u][d]
         ]_vars
    /\ \A t \in TaskShapes :
           (CopiesIn(t, tasks) > 0) ~>
               /\ last.cmd = "api"
               /\ last.user = t.user
               /\ last.outcome \in {"completed", "service_unavailable"}
               /\ last.calls = 1
               /\ last.replies = 1

\* C17 witness: a command that passed the quota check and was dispatched has
\* completed after its call returned, counted once, with no call outstanding.
C17_Witness ==
    /\ last.cmd = "api"
    /\ last.outcome = "completed"
    /\ last.calls = 1
    /\ last.replies = 1
    /\ last.delta = 1
    /\ tasks = EmptyBag

====
